---- MODULE Spec2Model ----
(***************************************************************************)
(* Order workflow of the admin OrderController: store, update,             *)
(* applyDiscount and removeDiscount, over a store of orders, order items   *)
(* and discounts (coupon_order rows).  Every action is one database        *)
(* round trip of a handler (one await), so that handlers can interleave at *)
(* exactly the points where the JavaScript code suspends.                  *)
(***************************************************************************)
EXTENDS Integers, Sequences, FiniteSets, TLC

\* ---------------------------------------------------------------- bounds
MaxOrders == 2
MaxDiscounts == 4
MaxClock == 3

\* ------------------------------------------------------------ input sets
Req == {"r1", "r2"}
SeqReq == "r1"
Users == {5, 6}
Statuses == {"pending", "paid"}
ItemLists == {<<>>, <<"P1">>, <<"P1", "P2">>}
OrderIdInputs == {1, 2, 9}
Undefined == "<undefined>"
Codes == {"save10", "FREESHIP", "Stack", "bogus", Undefined}

\* The coupons table: codes are stored upper-case; STACK is recursive.
Coupons ==
  { [id |-> 1, code |-> "SAVE10", recursive |-> FALSE],
    [id |-> 2, code |-> "FREESHIP", recursive |-> FALSE],
    [id |-> 3, code |-> "STACK", recursive |-> TRUE] }

VARIABLES
  orders,         \* committed Order rows: [id, user_id, status]
  items,          \* committed OrderItem rows: [order_id, product]
  discounts,      \* Discount rows: [id, order_id, coupon_id, deleted_at] (0 = null)
  nextOrderId,    \* auto-increment of orders
  nextDiscountId, \* auto-increment of discounts
  now,            \* the clock read by new Date()
  trxState,       \* "none" | "open" | "committed" | "rolledback"
  txOrders,       \* Order rows as the open transaction sees them
  txItems,        \* OrderItem rows as the open transaction sees them
  syncPc,         \* position of the un-awaited syncUpdateItems promise
  pc,             \* position of each request's handler
  req,            \* each request's inputs
  loc,            \* each request's local variables
  snap,           \* the store as it was when each request arrived
  seen            \* for each Discount id, the count its creator had read

storeVars == <<orders, items>>
txVars == <<trxState, txOrders, txItems>>
idVars == <<nextOrderId, nextDiscountId>>
vars == <<orders, items, discounts, nextOrderId, nextDiscountId, now,
          trxState, txOrders, txItems, syncPc, pc, req, loc, snap, seen>>

NoReq ==
  [op |-> "none", id |-> 0, code |-> "", user_id |-> 0, status |-> "",
   items |-> <<>>, discount_id |-> 0]
NoLoc ==
  [coupon |-> 0, order |-> 0, canAdd |-> FALSE, count |-> 0, found |-> 0,
   success |-> "unset", result |-> "none", failedAt |-> "none", k |-> 0,
   rollback |-> "none", stamp |-> 0]
NoSnap == [orders |-> {}, items |-> {}, discounts |-> {}]

\* ------------------------------------------------------- pure functions

\* String.prototype.toUpperCase on the codes a request may carry.
toUpperCase(c) ==
  CASE c = "save10" -> "SAVE10"
    [] c = "Stack" -> "STACK"
    [] c = "bogus" -> "BOGUS"
    [] OTHER -> c

\* Coupon.findByOrFail('code', code): the coupons whose code is exactly `code`.
findByCode(code) == {c \in Coupons : c.code = code}

CouponOf(cid) == CHOOSE c \in Coupons : c.id = cid

\* Order.findOrFail(id): the rows with that primary key.
findOrder(id, rows) == {o \in rows : o.id = id}

\* order.coupons().getCount(): the active (non-deleted) Discount rows of the order.
getCount(oid, rows) ==
  Cardinality({d \in rows : d.order_id = oid /\ d.deleted_at = 0})

\* canApplyToOrder with the && coupon.recursive conjunct lost.
canApplyToOrderAnyCoupon(orderDiscounts, recursive) ==
  orderDiscounts < 1 \/ orderDiscounts >= 1

\* canApplyToOrder with an off-by-one in the first comparison.
canApplyToOrderOffByOne(orderDiscounts, recursive) ==
  orderDiscounts <= 1 \/ (orderDiscounts >= 1 /\ recursive)

\* canApplyToOrder with the recursive flag negated.
canApplyToOrderNegated(orderDiscounts, recursive) ==
  orderDiscounts < 1 \/ (orderDiscounts >= 1 /\ ~recursive)

canApplyToOrder(orderDiscounts, recursive) ==
  orderDiscounts < 1 \/ (orderDiscounts >= 1 /\ recursive)

\* findOrCreate whose find never matches: every call inserts.
findDiscountNever(oid, cid, rows) == {}

\* The find of Discount.findOrCreate({order_id, coupon_id}): the rows with
\* exactly these two columns; deleted_at is not part of the where clause.
findDiscount(oid, cid, rows) ==
  {d \in rows : d.order_id = oid /\ d.coupon_id = cid}

\* Discount.findOrFail(discount_id): by primary key alone.
findDiscountById(id, rows) == {d \in rows : d.id = id}

\* trx.rollback() that publishes the transaction's writes.
trxRollbackLeaky(visible, pending) == pending

\* trx.rollback(): the visible rows stay what they were.
trxRollback(visible, pending) == visible

\* trx.commit(): the transaction's rows become the visible ones.
trxCommit(visible, pending) == pending

ItemRows(oid, list) == {[order_id |-> oid, product |-> list[i]] : i \in 1..Len(list)}

Quiet == (\A q \in Req : pc[q] = "idle") /\ syncPc = "off"

InApply(q) == req[q].op = "applyDiscount"

\* --------------------------------------------------------------- Init

EmptyRun ==
  /\ nextDiscountId = 1
  /\ now = 1
  /\ discounts = {}
  /\ items = {}
  /\ trxState = "none"
  /\ txOrders = {}
  /\ txItems = {}
  /\ syncPc = "off"
  /\ pc = [r \in Req |-> "idle"]
  /\ req = [r \in Req |-> NoReq]
  /\ loc = [r \in Req |-> NoLoc]
  /\ snap = [r \in Req |-> NoSnap]
  /\ seen = [d \in {} |-> 0]

Init ==
  /\ EmptyRun
  /\ orders = {}
  /\ nextOrderId = 1

\* Two committed orders without items: the state after two successful stores.
InitDiscounts ==
  /\ EmptyRun
  /\ orders = {[id |-> 1, user_id |-> 5, status |-> "pending"],
               [id |-> 2, user_id |-> 6, status |-> "paid"]}
  /\ nextOrderId = 3

\* ------------------------------------------------------- applyDiscount

BeginApply(r, id, code) ==
  /\ pc[r] = "idle"
  /\ nextDiscountId + Cardinality({q \in Req : InApply(q)}) <= MaxDiscounts
  /\ req' = [req EXCEPT ![r] = [NoReq EXCEPT !.op = "applyDiscount", !.id = id, !.code = code]]
  /\ snap' = [snap EXCEPT ![r] = [orders |-> orders, items |-> items, discounts |-> discounts]]
  /\ pc' = [pc EXCEPT ![r] = "ad_lookup"]
  /\ UNCHANGED <<storeVars, discounts, idVars, now, txVars, syncPc, loc, seen>>

\* Lines 182-184: the coupon by upper-cased code, then the order.
ApplyLookup(r) ==
  /\ pc[r] = "ad_lookup"
  /\ LET code == req[r].code
         cs == IF code = Undefined THEN {} ELSE findByCode(toUpperCase(code))
         os == findOrder(req[r].id, orders)
     IN IF cs = {} \/ os = {}
        THEN /\ loc' = [loc EXCEPT ![r].result = "400", ![r].failedAt = "lookup"]
             /\ pc' = [pc EXCEPT ![r] = "done"]
        ELSE /\ loc' = [loc EXCEPT ![r].coupon = (CHOOSE c \in cs : TRUE).id,
                                   ![r].order = req[r].id]
             /\ pc' = [pc EXCEPT ![r] = "ad_can"]
  /\ UNCHANGED <<storeVars, discounts, idVars, now, txVars, syncPc, req, snap, seen>>

\* Line 189: service.canApplyDiscount(coupon), an opaque eligibility predicate.
ApplyCanApply(r) ==
  /\ pc[r] = "ad_can"
  /\ \E b \in BOOLEAN : loc' = [loc EXCEPT ![r].canAdd = b]
  /\ pc' = [pc EXCEPT ![r] = "ad_count"]
  /\ UNCHANGED <<storeVars, discounts, idVars, now, txVars, syncPc, req, snap, seen>>

\* Lines 190-195: the count is read, and the decision is taken on the value read.
ApplyGetCount(r) ==
  /\ pc[r] = "ad_count"
  /\ LET n == getCount(loc[r].order, discounts)
     IN IF loc[r].canAdd /\ canApplyToOrder(n, CouponOf(loc[r].coupon).recursive)
        THEN /\ loc' = [loc EXCEPT ![r].count = n]
             /\ pc' = [pc EXCEPT ![r] = "ad_find"]
        ELSE /\ loc' = [loc EXCEPT ![r].count = n, ![r].success = "false"]
             /\ pc' = [pc EXCEPT ![r] = "ad_transform"]
  /\ UNCHANGED <<storeVars, discounts, idVars, now, txVars, syncPc, req, snap, seen>>

\* Lines 198-205: the find of findOrCreate.
ApplyFind(r) ==
  /\ pc[r] = "ad_find"
  /\ LET ds == findDiscount(loc[r].order, loc[r].coupon, discounts)
     IN IF ds = {}
        THEN /\ pc' = [pc EXCEPT ![r] = "ad_create"]
             /\ loc' = loc
        ELSE /\ loc' = [loc EXCEPT ![r].found = (CHOOSE d \in ds : TRUE).id,
                                   ![r].success = "true"]
             /\ pc' = [pc EXCEPT ![r] = "ad_transform"]
  /\ UNCHANGED <<storeVars, discounts, idVars, now, txVars, syncPc, req, snap, seen>>

\* Lines 198-205: the create of findOrCreate.
ApplyCreate(r) ==
  /\ pc[r] = "ad_create"
  /\ discounts' = discounts \cup
       {[id |-> nextDiscountId, order_id |-> loc[r].order,
         coupon_id |-> loc[r].coupon, deleted_at |-> 0]}
  /\ seen' = [d \in DOMAIN seen \cup {nextDiscountId} |->
                IF d = nextDiscountId THEN loc[r].count ELSE seen[d]]
  /\ nextDiscountId' = nextDiscountId + 1
  /\ loc' = [loc EXCEPT ![r].found = nextDiscountId, ![r].success = "true"]
  /\ pc' = [pc EXCEPT ![r] = "ad_transform"]
  /\ UNCHANGED <<storeVars, nextOrderId, now, txVars, syncPc, req, snap>>

\* Lines 211-219: `orders` is not declared, so evaluating the argument of
\* item(orders, ...) throws a ReferenceError on both branches; the catch
\* answers 400.
ApplyTransform(r) ==
  /\ pc[r] = "ad_transform"
  /\ loc' = [loc EXCEPT ![r].result = "400", ![r].failedAt = "transform"]
  /\ pc' = [pc EXCEPT ![r] = "done"]
  /\ UNCHANGED <<storeVars, discounts, idVars, now, txVars, syncPc, req, snap, seen>>

\* ------------------------------------------------------ removeDiscount

BeginRemove(r, did) ==
  /\ pc[r] = "idle"
  /\ now + Cardinality({q \in Req : req[q].op = "removeDiscount"}) <= MaxClock
  /\ req' = [req EXCEPT ![r] = [NoReq EXCEPT !.op = "removeDiscount", !.discount_id = did]]
  /\ snap' = [snap EXCEPT ![r] = [orders |-> orders, items |-> items, discounts |-> discounts]]
  /\ pc' = [pc EXCEPT ![r] = "rd_find"]
  /\ UNCHANGED <<storeVars, discounts, idVars, now, txVars, syncPc, loc, seen>>

\* Lines 231-232: findOrFail, then merge({deleted_at: new Date()}).
RemoveFind(r) ==
  /\ pc[r] = "rd_find"
  /\ LET ds == findDiscountById(req[r].discount_id, discounts)
     IN IF ds = {}
        THEN /\ loc' = [loc EXCEPT ![r].result = "400", ![r].failedAt = "find"]
             /\ pc' = [pc EXCEPT ![r] = "done"]
             /\ now' = now
        ELSE /\ loc' = [loc EXCEPT ![r].found = req[r].discount_id, ![r].stamp = now]
             /\ pc' = [pc EXCEPT ![r] = "rd_save"]
             /\ now' = now + 1
  /\ UNCHANGED <<storeVars, discounts, idVars, txVars, syncPc, req, snap, seen>>

\* Lines 233-235: discount.save(), then the 200 answer.
RemoveSave(r) ==
  /\ pc[r] = "rd_save"
  /\ discounts' = {IF d.id = loc[r].found THEN [d EXCEPT !.deleted_at = loc[r].stamp] ELSE d
                   : d \in discounts}
  /\ loc' = [loc EXCEPT ![r].result = "200"]
  /\ pc' = [pc EXCEPT ![r] = "done"]
  /\ UNCHANGED <<storeVars, idVars, now, txVars, syncPc, req, snap, seen>>

\* --------------------------------------------------------------- store

BeginStore(r, user_id, status, list) ==
  /\ pc[r] = "idle"
  /\ nextOrderId <= MaxOrders
  /\ req' = [req EXCEPT ![r] = [NoReq EXCEPT !.op = "store", !.user_id = user_id,
                                             !.status = status, !.items = list]]
  /\ snap' = [snap EXCEPT ![r] = [orders |-> orders, items |-> items, discounts |-> discounts]]
  /\ pc' = [pc EXCEPT ![r] = "st_begin"]
  /\ UNCHANGED <<storeVars, discounts, idVars, now, txVars, syncPc, loc, seen>>

\* Line 64: Database.beginTransaction(), outside the try.
StoreBeginTrx(r) ==
  /\ pc[r] = "st_begin"
  /\ \/ /\ trxState' = "open"
        /\ txOrders' = orders
        /\ txItems' = items
        /\ pc' = [pc EXCEPT ![r] = "st_create"]
        /\ loc' = loc
     \/ /\ loc' = [loc EXCEPT ![r].result = "unhandled", ![r].failedAt = "begin"]
        /\ pc' = [pc EXCEPT ![r] = "done"]
        /\ UNCHANGED txVars
  /\ UNCHANGED <<storeVars, discounts, idVars, now, syncPc, req, snap, seen>>

\* Lines 67-69: Order.create({user_id, status}, trx).
StoreCreate(r) ==
  /\ pc[r] = "st_create"
  /\ \/ /\ txOrders' = txOrders \cup
             {[id |-> nextOrderId, user_id |-> req[r].user_id, status |-> req[r].status]}
        /\ nextOrderId' = nextOrderId + 1
        /\ loc' = [loc EXCEPT ![r].order = nextOrderId]
        /\ pc' = [pc EXCEPT ![r] = IF Len(req[r].items) > 0 THEN "st_items" ELSE "st_commit"]
     \/ /\ loc' = [loc EXCEPT ![r].failedAt = "create"]
        /\ pc' = [pc EXCEPT ![r] = "st_catch"]
        /\ UNCHANGED <<txOrders, nextOrderId>>
  /\ UNCHANGED <<storeVars, discounts, nextDiscountId, now, trxState, txItems, syncPc,
                 req, snap, seen>>

\* Line 70: service.syncItems(items), one OrderItem insert per entry.
StoreSyncItem(r) ==
  /\ pc[r] = "st_items"
  /\ \/ /\ txItems' = txItems \cup
             {[order_id |-> loc[r].order, product |-> req[r].items[loc[r].k + 1]]}
        /\ loc' = [loc EXCEPT ![r].k = @ + 1]
        /\ pc' = [pc EXCEPT ![r] = IF loc[r].k + 1 = Len(req[r].items)
                                   THEN "st_commit" ELSE "st_items"]
     \/ /\ loc' = [loc EXCEPT ![r].failedAt = "items"]
        /\ pc' = [pc EXCEPT ![r] = "st_catch"]
        /\ UNCHANGED txItems
  /\ UNCHANGED <<storeVars, discounts, idVars, now, trxState, txOrders, syncPc,
                 req, snap, seen>>

\* Line 72: trx.commit().
StoreCommit(r) ==
  /\ pc[r] = "st_commit"
  /\ \/ /\ orders' = trxCommit(orders, txOrders)
        /\ items' = trxCommit(items, txItems)
        /\ trxState' = "committed"
        /\ pc' = [pc EXCEPT ![r] = "st_hydrate"]
        /\ loc' = loc
     \/ /\ loc' = [loc EXCEPT ![r].failedAt = "commit"]
        /\ pc' = [pc EXCEPT ![r] = "st_catch"]
        /\ UNCHANGED <<storeVars, trxState>>
  /\ UNCHANGED <<discounts, idVars, now, txOrders, txItems, syncPc, req, snap, seen>>

\* Lines 74-76: Order.find, the transformer, the 201 answer.
StoreHydrate(r) ==
  /\ pc[r] = "st_hydrate"
  /\ \/ /\ loc' = [loc EXCEPT ![r].result = "201"]
        /\ pc' = [pc EXCEPT ![r] = "done"]
     \/ /\ loc' = [loc EXCEPT ![r].failedAt = "hydrate"]
        /\ pc' = [pc EXCEPT ![r] = "st_catch"]
  /\ UNCHANGED <<storeVars, discounts, idVars, now, txVars, syncPc, req, snap, seen>>

\* Lines 77-83: trx.rollback(), then the 400 answer.  A transaction that
\* has already been committed is complete: rolling it back changes nothing.
StoreCatch(r) ==
  /\ pc[r] = "st_catch"
  /\ IF trxState = "open"
     THEN /\ orders' = trxRollback(orders, txOrders)
          /\ items' = trxRollback(items, txItems)
          /\ trxState' = "rolledback"
          /\ loc' = [loc EXCEPT ![r].result = "400", ![r].rollback = "done"]
     ELSE /\ UNCHANGED <<storeVars, trxState>>
          /\ loc' = [loc EXCEPT ![r].result = "400", ![r].rollback = "late"]
  /\ pc' = [pc EXCEPT ![r] = "done"]
  /\ UNCHANGED <<discounts, idVars, now, txOrders, txItems, syncPc, req, snap, seen>>

\* -------------------------------------------------------------- update

BeginUpdate(r, id, user_id, status, list) ==
  /\ pc[r] = "idle"
  /\ req' = [req EXCEPT ![r] = [NoReq EXCEPT !.op = "update", !.id = id, !.user_id = user_id,
                                             !.status = status, !.items = list]]
  /\ snap' = [snap EXCEPT ![r] = [orders |-> orders, items |-> items, discounts |-> discounts]]
  /\ pc' = [pc EXCEPT ![r] = "up_find"]
  /\ UNCHANGED <<storeVars, discounts, idVars, now, txVars, syncPc, loc, seen>>

\* Line 120: Order.findOrFail(id).
UpdFind(r) ==
  /\ pc[r] = "up_find"
  /\ IF findOrder(req[r].id, orders) = {}
     THEN /\ loc' = [loc EXCEPT ![r].failedAt = "find"]
          /\ pc' = [pc EXCEPT ![r] = "up_catch"]
     ELSE /\ loc' = [loc EXCEPT ![r].order = req[r].id]
          /\ pc' = [pc EXCEPT ![r] = "up_begin"]
  /\ UNCHANGED <<storeVars, discounts, idVars, now, txVars, syncPc, req, snap, seen>>

\* Lines 121-130: beginTransaction; then, without suspending, merge, the call
\* service.syncUpdateItems(items) whose promise is not awaited, and the
\* issue of order.save(trx).
UpdBeginTrx(r) ==
  /\ pc[r] = "up_begin"
  /\ \/ /\ trxState' = "open"
        /\ txOrders' = orders
        /\ txItems' = items
        /\ syncPc' = "read"
        /\ pc' = [pc EXCEPT ![r] = "up_save"]
        /\ loc' = loc
     \/ /\ loc' = [loc EXCEPT ![r].failedAt = "begin"]
        /\ pc' = [pc EXCEPT ![r] = "up_catch"]
        /\ UNCHANGED <<txVars, syncPc>>
  /\ UNCHANGED <<storeVars, discounts, idVars, now, req, snap, seen>>

\* Line 130: order.save(trx) writes the merged header.
UpdSave(r) ==
  /\ pc[r] = "up_save"
  /\ \/ /\ txOrders' = {IF o.id = loc[r].order
                        THEN [o EXCEPT !.user_id = req[r].user_id, !.status = req[r].status]
                        ELSE o : o \in txOrders}
        /\ pc' = [pc EXCEPT ![r] = "up_commit"]
        /\ loc' = loc
     \/ /\ loc' = [loc EXCEPT ![r].failedAt = "save"]
        /\ pc' = [pc EXCEPT ![r] = "up_catch"]
        /\ UNCHANGED txOrders
  /\ UNCHANGED <<storeVars, discounts, idVars, now, trxState, txItems, syncPc, req, snap, seen>>

\* Line 131: trx.commit().
UpdCommit(r) ==
  /\ pc[r] = "up_commit"
  /\ \/ /\ orders' = trxCommit(orders, txOrders)
        /\ items' = trxCommit(items, txItems)
        /\ trxState' = "committed"
        /\ pc' = [pc EXCEPT ![r] = "up_respond"]
        /\ loc' = loc
     \/ /\ loc' = [loc EXCEPT ![r].failedAt = "commit"]
        /\ pc' = [pc EXCEPT ![r] = "up_catch"]
        /\ UNCHANGED <<storeVars, trxState>>
  /\ UNCHANGED <<discounts, idVars, now, txOrders, txItems, syncPc, req, snap, seen>>

\* Lines 133-137: the transformer and the 200 answer.
UpdRespond(r) ==
  /\ pc[r] = "up_respond"
  /\ \/ /\ loc' = [loc EXCEPT ![r].result = "200"]
        /\ pc' = [pc EXCEPT ![r] = "done"]
     \/ /\ loc' = [loc EXCEPT ![r].failedAt = "respond"]
        /\ pc' = [pc EXCEPT ![r] = "up_catch"]
  /\ UNCHANGED <<storeVars, discounts, idVars, now, txVars, syncPc, req, snap, seen>>

\* Lines 138-144: `trx` is declared with const inside the try block, so it is
\* not in scope in the catch block: trx.rollback() throws a ReferenceError,
\* nothing is rolled back and no answer is sent by the handler.
UpdCatch(r) ==
  /\ pc[r] = "up_catch"
  /\ loc' = [loc EXCEPT ![r].result = "unhandled", ![r].rollback = "ReferenceError"]
  /\ pc' = [pc EXCEPT ![r] = "done"]
  /\ UNCHANGED <<storeVars, discounts, idVars, now, txVars, syncPc, req, snap, seen>>

\* The request whose syncUpdateItems promise is pending.
Updater == CHOOSE r \in Req : req[r].op = "update"

\* syncUpdateItems, first round trip: the order's existing items are read.
SyncRead ==
  /\ syncPc = "read"
  /\ syncPc' = "delete"
  /\ UNCHANGED <<storeVars, discounts, idVars, now, txVars, pc, req, loc, snap, seen>>

\* syncUpdateItems, removals: the rows whose product is not requested are
\* deleted inside the transaction; a write to a completed transaction fails.
SyncDelete ==
  /\ syncPc = "delete"
  /\ IF trxState = "open"
     THEN /\ txItems' = {i \in txItems : i.order_id # loc[Updater].order
                                         \/ i \in ItemRows(loc[Updater].order, req[Updater].items)}
          /\ syncPc' = "insert"
     ELSE /\ txItems' = txItems
          /\ syncPc' = "failed"
  /\ UNCHANGED <<storeVars, discounts, idVars, now, trxState, txOrders, pc, req, loc, snap, seen>>

\* syncUpdateItems, additions: the requested rows that are missing are inserted.
SyncInsert ==
  /\ syncPc = "insert"
  /\ IF trxState = "open"
     THEN /\ txItems' = txItems \cup ItemRows(loc[Updater].order, req[Updater].items)
          /\ syncPc' = "done"
     ELSE /\ txItems' = txItems
          /\ syncPc' = "failed"
  /\ UNCHANGED <<storeVars, discounts, idVars, now, trxState, txOrders, pc, req, loc, snap, seen>>

\* ------------------------------------------------------------- the end

\* The answer has left and nothing of the request is pending: its locals, and
\* the transaction object it held, are dropped.
Finish(r) ==
  /\ pc[r] = "done"
  /\ syncPc \in {"off", "done", "failed"}
  /\ pc' = [pc EXCEPT ![r] = "idle"]
  /\ req' = [req EXCEPT ![r] = NoReq]
  /\ loc' = [loc EXCEPT ![r] = NoLoc]
  /\ snap' = [snap EXCEPT ![r] = NoSnap]
  /\ syncPc' = "off"
  /\ trxState' = "none"
  /\ txOrders' = {}
  /\ txItems' = {}
  /\ UNCHANGED <<storeVars, discounts, idVars, now, seen>>

StepApply(r) ==
  \/ ApplyLookup(r) \/ ApplyCanApply(r) \/ ApplyGetCount(r)
  \/ ApplyFind(r) \/ ApplyCreate(r) \/ ApplyTransform(r)

StepRemove(r) == RemoveFind(r) \/ RemoveSave(r)

StepStore(r) ==
  \/ StoreBeginTrx(r) \/ StoreCreate(r) \/ StoreSyncItem(r)
  \/ StoreCommit(r) \/ StoreHydrate(r) \/ StoreCatch(r)

StepUpdate(r) ==
  \/ UpdFind(r) \/ UpdBeginTrx(r) \/ UpdSave(r)
  \/ UpdCommit(r) \/ UpdRespond(r) \/ UpdCatch(r)
  \/ SyncRead \/ SyncDelete \/ SyncInsert

\* store and update requests, one at a time: a request is taken only when
\* nothing of the previous one is pending.
ArriveOrders ==
  /\ Quiet
  /\ \/ \E u \in Users, s \in Statuses, l \in ItemLists : BeginStore(SeqReq, u, s, l)
     \/ \E id \in 1..MaxOrders, u \in Users, s \in Statuses, l \in ItemLists :
          BeginUpdate(SeqReq, id, u, s, l)

NextOrders ==
  \/ ArriveOrders
  \/ StepStore(SeqReq)
  \/ StepUpdate(SeqReq)
  \/ Finish(SeqReq)

SpecOrders == Init /\ [][NextOrders]_vars

\* applyDiscount and removeDiscount requests, one at a time, on committed orders.
ArriveDiscounts ==
  /\ Quiet
  /\ \/ \E id \in OrderIdInputs, code \in Codes : BeginApply(SeqReq, id, code)
     \/ \E did \in 0..MaxDiscounts : BeginRemove(SeqReq, did)

NextDiscounts ==
  \/ ArriveDiscounts
  \/ StepApply(SeqReq)
  \/ StepRemove(SeqReq)
  \/ Finish(SeqReq)

SpecDiscounts == InitDiscounts /\ [][NextDiscounts]_vars

\* applyDiscount requests on one order that overlap in time.
ArriveConc == \E r \in Req, code \in Codes : BeginApply(r, 1, code)

NextConc ==
  \/ ArriveConc
  \/ \E r \in Req : StepApply(r) \/ Finish(r)

SpecConc == InitDiscounts /\ [][NextConc]_vars

\* ------------------------------------------------------------ properties

Active(rows) == {d \in rows : d.deleted_at = 0}
RowsOf(oid, cid, rows) == {d \in rows : d.order_id = oid /\ d.coupon_id = cid}
NonRecursive(d) == ~CouponOf(d.coupon_id).recursive
Done(r, op) == req[r].op = op /\ pc[r] = "done"

\* C1: with requests taken one at a time, no order ever carries two active
\* Discounts whose coupons are both non-recursive: whatever an order carries
\* beyond one active Discount was put there by a recursive coupon.
C1_StackingInvariant ==
  \A o \in orders :
    Cardinality({d \in Active(discounts) : d.order_id = o.id /\ NonRecursive(d)}) <= 1

\* An order carries two active Discounts, one of them non-recursive.
C1_Witness ==
  \E o \in orders :
    /\ getCount(o.id, discounts) >= 2
    /\ \E d \in Active(discounts) : d.order_id = o.id /\ NonRecursive(d)

\* C2: once applyDiscount has decided, it has accepted the coupon if and only
\* if canApplyDiscount held and (the order had no active Discount when the
\* request arrived, or the coupon is recursive); an accepted call leaves a
\* Discount row for (order, coupon), inserting exactly one row when there was
\* none, and a rejected call leaves the Discount rows as they were.
C2_PolicyDecides ==
  \A r \in Req :
    (InApply(r) /\ loc[r].success # "unset") =>
      LET before == snap[r].discounts
          n == Cardinality({d \in before : d.order_id = loc[r].order /\ d.deleted_at = 0})
          allowed == loc[r].canAdd /\ (n < 1 \/ CouponOf(loc[r].coupon).recursive)
          had == RowsOf(loc[r].order, loc[r].coupon, before)
      IN /\ (loc[r].success = "true") <=> allowed
         /\ allowed => RowsOf(loc[r].order, loc[r].coupon, discounts) # {}
         /\ (allowed /\ had = {}) =>
              \E d \in Active(discounts) :
                /\ d.order_id = loc[r].order /\ d.coupon_id = loc[r].coupon
                /\ discounts = before \cup {d} /\ d \notin before
         /\ (~allowed \/ had # {}) => discounts = before

\* A recursive coupon was accepted on an order that already had an active
\* Discount, and its row was inserted.
C2_Witness ==
  \E r \in Req :
    /\ Done(r, "applyDiscount") /\ loc[r].success = "true"
    /\ CouponOf(loc[r].coupon).recursive
    /\ getCount(loc[r].order, snap[r].discounts) >= 1
    /\ discounts # snap[r].discounts

\* C3: an applyDiscount whose coupon code and order id both resolve ends
\* with the non-error answer {order, info}, info.success being the decision.
C3_DecisionIsAnswered ==
  \A r \in Req :
    (Done(r, "applyDiscount") /\ loc[r].failedAt # "lookup") =>
      loc[r].result = "200" /\ loc[r].success \in {"true", "false"}

\* C4: with requests taken one at a time, no two active Discount rows have the
\* same order_id and coupon_id.
C4_NoDuplicateActivePair ==
  \A d1 \in Active(discounts), d2 \in Active(discounts) :
    (d1.order_id = d2.order_id /\ d1.coupon_id = d2.coupon_id) => d1 = d2

\* A coupon was accepted again on an order that already had its active row.
C4_Witness ==
  \E r \in Req :
    /\ Done(r, "applyDiscount") /\ loc[r].success = "true"
    /\ Active(RowsOf(loc[r].order, loc[r].coupon, snap[r].discounts)) # {}

\* C5: a store that failed at the Order insert, at an OrderItem insert or at
\* the commit has rolled its transaction back, and the committed orders and
\* order items are those of before the request.
C5_StoreIsAtomic ==
  \A r \in Req :
    (Done(r, "store") /\ loc[r].failedAt \in {"create", "items", "commit"}) =>
      /\ trxState = "rolledback"
      /\ orders = snap[r].orders
      /\ items = snap[r].items

\* A store failed at its second OrderItem insert, after the first went through.
C5_Witness ==
  \E r \in Req :
    /\ Done(r, "store") /\ loc[r].failedAt = "items"
    /\ loc[r].k >= 1 /\ loc[r].order # 0

\* C6: an update that failed has rolled back the transaction it opened, and
\* the committed orders and order items are those of before the request.
C6_UpdateFailureRollsBack ==
  \A r \in Req :
    (Done(r, "update") /\ loc[r].failedAt # "none") =>
      /\ trxState \in {"none", "rolledback"}
      /\ orders = snap[r].orders
      /\ items = snap[r].items

\* C7: a removeDiscount whose discount_id did not resolve to an active
\* Discount when the request arrived answers NotFound and changes no row.
C7_InactiveIsNotFound ==
  \A r \in Req :
    (/\ Done(r, "removeDiscount")
     /\ Active(findDiscountById(req[r].discount_id, snap[r].discounts)) = {}) =>
      loc[r].result = "400" /\ discounts = snap[r].discounts

\* C8: when a store or update request has ended, the transaction it opened is
\* committed or rolled back, and no rollback ran without a transaction.
C8_TransactionEnds ==
  \A r \in Req :
    (Done(r, "store") \/ Done(r, "update")) =>
      /\ trxState \in {"none", "committed", "rolledback"}
      /\ trxState = "none" => loc[r].rollback \notin {"done", "late"}

\* C9: when applyDiscount requests overlap, every Discount row was still
\* inserted by a request whose stacking check passed on the count it had
\* read, and every request that passed it ends accepted (there is no
\* Conflict outcome); the check is made on the count read, not on the rows
\* present at the insert.
C9_InsertDecidedOnCountRead ==
  /\ \A d \in discounts : seen[d.id] < 1 \/ CouponOf(d.coupon_id).recursive
  /\ \A r \in Req :
       (InApply(r) /\ pc[r] \in {"ad_transform", "done"} /\ loc[r].success # "unset") =>
         (loc[r].success = "true") <=>
           (loc[r].canAdd /\ (loc[r].count < 1 \/ CouponOf(loc[r].coupon).recursive))

\* Two requests that both read a count of 0 have left one order with two
\* active Discounts of two different non-recursive coupons.
C9_Witness ==
  \E d1 \in Active(discounts), d2 \in Active(discounts) :
    /\ d1.order_id = d2.order_id /\ d1.coupon_id # d2.coupon_id
    /\ NonRecursive(d1) /\ NonRecursive(d2)
    /\ seen[d1.id] = 0 /\ seen[d2.id] = 0

\* C10: whenever an update's transaction is committed, its item
\* reconciliation has completed and the committed OrderItems of the order
\* are the requested list.
C10_ReconciledBeforeCommit ==
  \A r \in Req :
    (req[r].op = "update" /\ trxState = "committed") =>
      /\ syncPc = "done"
      /\ {i \in items : i.order_id = loc[r].order} = ItemRows(loc[r].order, req[r].items)

====
